---- MODULE Spec2Model ----
(***************************************************************************)
(* Hong Kong monthly temperature matrix view (src/main.js).                *)
(*                                                                         *)
(* The page loads a CSV of daily records, keeps the last YEARS_COUNT       *)
(* years, groups the records by (year, month), draws one coloured cell     *)
(* per group with two mini line charts, a legend, and toggles between the  *)
(* monthly maximum and the monthly minimum on a click on any cell.         *)
(*                                                                         *)
(* Conventions.  A value that JavaScript leaves undefined or null is the   *)
(* empty sequence <<>>.  A Date is <<year, monthIndex, day>> with          *)
(* monthIndex in 0..11, as getFullYear / getMonth / getDate return them.   *)
(* A pixel length that is not an integer is a fraction <<num, den>>.       *)
(***************************************************************************)
EXTENDS Integers, Sequences, FiniteSets, TLC

(***************************************************************************)
(* 1. Constants & configuration (main.js, section 1)                       *)
(***************************************************************************)
MARGIN == [top |-> 50, right |-> 120, bottom |-> 20, left |-> 90]
CELL_WIDTH == 100
CELL_HEIGHT == 70
YEARS_COUNT == 10
MONTHS_COUNT == 12
WIDTH == CELL_WIDTH * YEARS_COUNT + MARGIN.left + MARGIN.right
HEIGHT == CELL_HEIGHT * MONTHS_COUNT + MARGIN.top + MARGIN.bottom
TEMP_MIN == 0
TEMP_MAX == 40

(***************************************************************************)
(* Bounds of the model.                                                    *)
(***************************************************************************)
\* rows of the CSV in the full pipeline
MaxRows == 2
\* clicks followed in one run
MaxClicks == 3
\* distinct years offered to the year-window specification
MaxYears == 12
\* records of one month group offered to summariseMonth on its own
MaxDays == 3

(***************************************************************************)
(* The inputs: raw CSV rows.  A raw date is the text YYYY-MM-DD, held as   *)
(* <<YYYY, MM, DD>> with MM in 1..12, or <<>> for text that the format     *)
(* does not match.                                                         *)
(***************************************************************************)
RowYears == {999, 1000}
RowMonths == {1, 2}
RowDays == {1, 2}
RowTemps == {<<14, 4>>, <<10, 2>>}
BadDate == <<>>

RawRow(dt, t) == [date |-> dt, max_temperature |-> t[1], min_temperature |-> t[2]]

RawRows ==
    {RawRow(<<y, m, d>>, t) : y \in RowYears, m \in RowMonths, d \in RowDays, t \in RowTemps}
        \cup {RawRow(BadDate, <<14, 4>>)}

SeqsUpTo(S, n) == UNION {[1..k -> S] : k \in 0..n}

Datasets == SeqsUpTo(RawRows, MaxRows)

\* the year-window inputs: one row (1 January) per year of a set of years,
\* the rows in ascending or in descending order of the year
YearDomain == 998..(998 + MaxYears - 1)

RECURSIVE SetToAscSeq(_)
SetToAscSeq(S) ==
    IF S = {} THEN <<>>
    ELSE LET m == CHOOSE x \in S : \A y \in S : x <= y
         IN <<m>> \o SetToAscSeq(S \ {m})

Reverse(s) == [i \in 1..Len(s) |-> s[Len(s) + 1 - i]]

YearRows(ys) == [i \in 1..Len(ys) |-> RawRow(<<ys[i], 1, 1>>, <<14, 4>>)]

YearDatasets ==
    UNION {{YearRows(SetToAscSeq(Y)), YearRows(Reverse(SetToAscSeq(Y)))} : Y \in SUBSET YearDomain}

(***************************************************************************)
(* JavaScript and d3 helpers used by the loader                            *)
(***************************************************************************)
\* d3.timeParse("%Y-%m-%d"): null when the text does not match, else the
\* local Date; the month of a Date is zero-based
timeParse(raw) == IF raw = BadDate THEN <<>> ELSE <<raw[1], raw[2] - 1, raw[3]>>

\* the row callback of d3.csv: the row is kept whatever timeParse returns
parseRow(d) ==
    [date |-> timeParse(d.date), max |-> d.max_temperature, min |-> d.min_temperature]

getFullYear(date) == date[1]
getMonth(date) == date[2]

\* a.date - b.date compares the timestamps; this number orders valid dates
\* as their timestamps do
valueOf(date) == (getFullYear(date) * 12 + getMonth(date)) * 31 + date[3]

\* String(n) of a non-negative integer, as its decimal digits
RECURSIVE String(_)
String(n) == IF n < 10 THEN <<n>> ELSE Append(String(n \div 10), n % 10)

\* s < t on strings: the first differing code unit decides, a proper prefix
\* is smaller
RECURSIVE StringLess(_, _)
StringLess(s, t) ==
    IF t = <<>> THEN FALSE
    ELSE IF s = <<>> THEN TRUE
    ELSE IF Head(s) # Head(t) THEN Head(s) < Head(t)
    ELSE StringLess(Tail(s), Tail(t))

\* [...new Set(xs)]: the distinct elements in the order of first occurrence
RECURSIVE Distinct(_)
Distinct(xs) ==
    IF xs = <<>> THEN <<>>
    ELSE LET front == Distinct(SubSeq(xs, 1, Len(xs) - 1))
             x == xs[Len(xs)]
         IN IF \E i \in 1..Len(front) : front[i] = x THEN front ELSE Append(front, x)

\* Array.prototype.sort() with no comparator: the elements are ordered by
\* their string conversions (stable insertion of each element in turn)
RECURSIVE DefaultSort(_)
DefaultSort(xs) ==
    IF xs = <<>> THEN <<>>
    ELSE LET front == DefaultSort(SubSeq(xs, 1, Len(xs) - 1))
             x == xs[Len(xs)]
             k == Cardinality({i \in 1..Len(front) : ~StringLess(String(x), String(front[i]))})
         IN SubSeq(front, 1, k) \o <<x>> \o SubSeq(front, k + 1, Len(front))

\* xs.slice(-n): the last n elements, all of them when there are fewer
sliceLast(xs, n) == SubSeq(xs, IF Len(xs) > n THEN Len(xs) - n + 1 ELSE 1, Len(xs))

Range(s) == {s[i] : i \in 1..Len(s)}


(***************************************************************************)
(* Fractions <<num, den>>, den > 0, kept in lowest terms                   *)
(***************************************************************************)
RECURSIVE GCD(_, _)
GCD(a, b) == IF b = 0 THEN a ELSE GCD(b, a % b)

Abs(a) == IF a < 0 THEN -a ELSE a

Frac(n, d) ==
    LET g == GCD(Abs(n), d)
    IN IF g = 0 THEN <<n, d>> ELSE <<n \div g, d \div g>>

FAdd(f, g) == Frac(f[1] * g[2] + g[1] * f[2], f[2] * g[2])
FSub(f, g) == Frac(f[1] * g[2] - g[1] * f[2], f[2] * g[2])
FMul(f, g) == Frac(f[1] * g[1], f[2] * g[2])
FDiv(f, g) == Frac(f[1] * g[2], f[2] * g[1])
FInt(n) == <<n, 1>>
FLess(f, g) == f[1] * g[2] < g[1] * f[2]

(***************************************************************************)
(* 2. Data loading & processing (main.js, section 2)                       *)
(***************************************************************************)
\* d3.group(rows, year, month) as a map from <<year, month>> to the rows of
\* that year and month, in the order of the rows
group2(rows) ==
    [k \in {<<getFullYear(rows[i].date), getMonth(rows[i].date)>> : i \in 1..Len(rows)} |->
        SelectSeq(rows, LAMBDA d : getFullYear(d.date) = k[1] /\ getMonth(d.date) = k[2])]

\* nested.get(year)?.get(month): undefined when either key is absent
nestedGet(map, year, month) ==
    IF <<year, month>> \in DOMAIN map THEN map[<<year, month>>] ELSE <<>>

EmptyMap == [k \in {} |-> <<>>]

\* loadData once d3.csv has delivered the rows.  d.date.getFullYear() on a
\* null date throws a TypeError, which rejects the promise loadData returns.
loadData(rawRows) ==
    LET data == [i \in 1..Len(rawRows) |-> parseRow(rawRows[i])]
    IN IF \E i \in 1..Len(data) : data[i].date = <<>>
       THEN [threw |-> TRUE, years |-> <<>>, nested |-> EmptyMap]
       ELSE LET allYears == DefaultSort(Distinct([i \in 1..Len(data) |-> getFullYear(data[i].date)]))
                yrs == sliceLast(allYears, YEARS_COUNT)
                \* years[0] is undefined for no rows, and x >= undefined is false
                filtered == IF yrs = <<>> THEN <<>>
                            ELSE SelectSeq(data, LAMBDA d : getFullYear(d.date) >= yrs[1])
            IN [threw |-> FALSE, years |-> yrs, nested |-> group2(filtered)]

\* d3.max(days, d => d.max): the running maximum, undefined for no values
RECURSIVE d3max(_)
d3max(values) ==
    IF values = <<>> THEN <<>>
    ELSE IF Len(values) = 1 THEN values[1]
    ELSE LET m == d3max(SubSeq(values, 1, Len(values) - 1))
             v == values[Len(values)]
         IN IF m < v THEN v ELSE m

\* d3.min(days, d => d.min)
RECURSIVE d3min(_)
d3min(values) ==
    IF values = <<>> THEN <<>>
    ELSE IF Len(values) = 1 THEN values[1]
    ELSE LET m == d3min(SubSeq(values, 1, Len(values) - 1))
             v == values[Len(values)]
         IN IF m > v THEN v ELSE m

\* days.sort((a, b) => a.date - b.date): stable, ascending by date
RECURSIVE sortByDate(_)
sortByDate(days) ==
    IF days = <<>> THEN <<>>
    ELSE LET front == sortByDate(SubSeq(days, 1, Len(days) - 1))
             x == days[Len(days)]
             k == Cardinality({i \in 1..Len(front) : valueOf(front[i].date) <= valueOf(x.date)})
         IN SubSeq(front, 1, k) \o <<x>> \o SubSeq(front, k + 1, Len(front))

\* summariseMonth without the sort of days
summariseMonthUnsorted(days) ==
    [monthlyMax |-> d3max([i \in 1..Len(days) |-> days[i].max]),
     monthlyMin |-> d3min([i \in 1..Len(days) |-> days[i].min]),
     days |-> days]

summariseMonth(days) ==
    [monthlyMax |-> d3max([i \in 1..Len(days) |-> days[i].max]),
     monthlyMin |-> d3min([i \in 1..Len(days) |-> days[i].min]),
     days |-> sortByDate(days)]

(***************************************************************************)
(* 3. Scales (main.js, section 3, and the band scales of drawAxes)         *)
(***************************************************************************)
\* d3.scaleSequential().domain([TEMP_MIN, TEMP_MAX]).interpolator(YlOrRd)
buildColourScale == [domain |-> <<TEMP_MIN, TEMP_MAX>>, interpolator |-> "interpolateYlOrRd"]

\* colour(v): the interpolator applied to t = (v - d0) / (d1 - d0); the
\* colour is a function of the interpolator and of t alone
applyColour(scale, v) ==
    [interpolator |-> scale.interpolator,
     t |-> Frac(v - scale.domain[1], scale.domain[2] - scale.domain[1])]

\* .padding(0.05) sets the inner and the outer padding of a band scale
PADDING == <<1, 20>>

scaleBand(dom, stop) == [domain |-> dom, range |-> <<0, stop>>, padding |-> PADDING]

\* d3 band scale: step = (stop - start) / max(1, n - paddingInner + 2 paddingOuter)
bandStep(s) ==
    LET n == FInt(Len(s.domain))
        d == FAdd(n, s.padding)
        width == FInt(s.range[2] - s.range[1])
    IN FDiv(width, IF FLess(d, FInt(1)) THEN FInt(1) ELSE d)

\* start += (stop - start - step * (n - paddingInner)) * align, align = 0.5
bandStart(s) ==
    LET n == FInt(Len(s.domain))
        width == FInt(s.range[2] - s.range[1])
    IN FAdd(FInt(s.range[1]),
            FMul(FSub(width, FMul(bandStep(s), FSub(n, s.padding))), <<1, 2>>))

\* scale.bandwidth() = step * (1 - paddingInner)
bandwidth(s) == FMul(bandStep(s), FSub(FInt(1), s.padding))

indexOf(dom, key) == CHOOSE i \in 1..Len(dom) : dom[i] = key /\ \A j \in 1..(i - 1) : dom[j] # key

\* scale(key) = start + step * index, undefined for a key outside the domain
bandPos(s, key) ==
    IF key \in Range(s.domain)
    THEN FAdd(bandStart(s), FMul(bandStep(s), FInt(indexOf(s.domain, key) - 1)))
    ELSE <<>>

\* d3.range(n) = [0, 1, ..., n - 1]
d3range(n) == [i \in 1..n |-> i - 1]

\* d3.scaleLinear().domain([d0, d1]).range([r0, r1]) applied to x; a domain
\* of one point maps every x to the middle of the range
scaleLinear(d0, d1, r0, r1, x) ==
    LET t == IF d1 = d0 THEN <<1, 2>> ELSE Frac(x - d0, d1 - d0)
    IN FAdd(r0, FMul(t, FSub(r1, r0)))

(***************************************************************************)
(* State                                                                   *)
(***************************************************************************)
VARIABLES
    pc,         \* the statement of main() that runs next
    fetch,      \* the d3.csv request: "pending", "resolved" or "rejected"
    csv,        \* the raw rows d3.csv delivered
    years,      \* loadData's years
    nested,     \* loadData's nested map
    colour,     \* <<the colour scale>> once built
    svg,        \* <<the root svg and its main group>> once created
    axes,       \* <<the band scales and the two axes>> once drawn
    cells,      \* the flat cell data array of drawCells
    cellGroups, \* the g.cell-group elements: transform and rect size
    fill,       \* the fill attribute (target of a running transition) of each rect.cell
    paths,      \* the mini line chart paths of each cell group
    legend,     \* <<the legend>> once drawn
    showMax,    \* the global flag of main.js
    modeLabel,  \* text of #mode-label strong
    tooltip,    \* #tooltip: opacity, html, position
    hovered,    \* index of the cell under the pointer, 0 for none
    clicks,     \* number of clicks dispatched so far
    group,      \* the argument of a stand-alone summariseMonth call
    summary     \* <<its result>>

vars == <<pc, fetch, csv, years, nested, colour, svg, axes, cells, cellGroups, fill,
          paths, legend, showMax, modeLabel, tooltip, hovered, clicks, group, summary>>

loadVars == <<csv, years, nested>>
chartVars == <<colour, svg, axes, cells, cellGroups, fill, paths, legend>>
uiVars == <<showMax, modeLabel, tooltip, hovered, clicks>>
sumVars == <<group, summary>>

MONTH_NAMES ==
    <<"January", "February", "March", "April", "May", "June",
      "July", "August", "September", "October", "November", "December">>

\* The script has run to the await of d3.csv in loadData, called from main()
\* on the last line.  showMax is true; the mode label and the tooltip hold
\* what the page's markup and stylesheet give them (the tooltip is hidden).
Init ==
    /\ pc = "loadData"
    /\ fetch = "pending"
    /\ csv = <<>>
    /\ years = <<>>
    /\ nested = EmptyMap
    /\ colour = <<>>
    /\ svg = <<>>
    /\ axes = <<>>
    /\ cells = <<>>
    /\ cellGroups = <<>>
    /\ fill = <<>>
    /\ paths = <<>>
    /\ legend = <<>>
    /\ showMax = TRUE
    /\ modeLabel = "index.html"
    /\ tooltip = [opacity |-> 0, html |-> <<>>, pos |-> <<>>]
    /\ hovered = 0
    /\ clicks = 0
    /\ group = <<>>
    /\ summary = <<>>

(***************************************************************************)
(* 6. main(): the load, then the drawing steps in order                    *)
(***************************************************************************)
\* d3.csv resolves with the rows; loadData runs to its return, or throws
Resolve(rows) ==
    /\ pc = "loadData"
    /\ fetch = "pending"
    /\ fetch' = "resolved"
    /\ csv' = rows
    /\ LET r == loadData(rows)
       IN /\ years' = r.years
          /\ nested' = r.nested
          /\ pc' = IF r.threw THEN "rejected" ELSE "buildColourScale"
    /\ UNCHANGED <<chartVars, uiVars, sumVars>>

CsvResolve == fetch = "pending" /\ \E rows \in Datasets : Resolve(rows)

CsvResolveYears == fetch = "pending" /\ \E rows \in YearDatasets : Resolve(rows)

\* d3.csv rejects (file missing, unreachable): main's promise rejects, unhandled
CsvReject ==
    /\ pc = "loadData"
    /\ fetch = "pending"
    /\ fetch' = "rejected"
    /\ pc' = "rejected"
    /\ UNCHANGED <<loadVars, chartVars, uiVars, sumVars>>

BuildColourScale ==
    /\ pc = "buildColourScale"
    /\ colour' = <<buildColourScale>>
    /\ pc' = "createSvg"
    /\ UNCHANGED <<fetch, loadVars, svg, axes, cells, cellGroups, fill, paths, legend,
                   uiVars, sumVars>>

(***************************************************************************)
(* 4. Drawing functions (main.js, section 4)                               *)
(***************************************************************************)
createSvg == [width |-> WIDTH, height |-> HEIGHT, translate |-> <<MARGIN.left, MARGIN.top>>]

\* createSvg called ahead of the await of loadData
CreateSvgBeforeLoad ==
    /\ pc = "loadData"
    /\ svg = <<>>
    /\ svg' = <<createSvg>>
    /\ UNCHANGED <<pc, fetch, loadVars, colour, axes, cells, cellGroups, fill, paths, legend,
                   uiVars, sumVars>>

CreateSvg ==
    /\ pc = "createSvg"
    /\ svg' = <<createSvg>>
    /\ pc' = "drawAxes"
    /\ UNCHANGED <<fetch, loadVars, colour, axes, cells, cellGroups, fill, paths, legend,
                   uiVars, sumVars>>

drawAxes(yrs) ==
    [xScale |-> scaleBand(yrs, CELL_WIDTH * Len(yrs)),
     yScale |-> scaleBand(d3range(MONTHS_COUNT), CELL_HEIGHT * MONTHS_COUNT),
     topTicks |-> yrs,
     leftTicks |-> [i \in 1..MONTHS_COUNT |-> MONTH_NAMES[d3range(MONTHS_COUNT)[i] + 1]]]

DrawAxes ==
    /\ pc = "drawAxes"
    /\ axes' = <<drawAxes(years)>>
    /\ pc' = "drawCells"
    /\ UNCHANGED <<fetch, loadVars, colour, svg, cells, cellGroups, fill, paths, legend,
                   uiVars, sumVars>>

\* the cells array of drawCells: years in order, months 0..11 in order, one
\* entry for each pair whose group nested holds
buildCells(map, yrs) ==
    LET pairs == [k \in 1..(Len(yrs) * MONTHS_COUNT) |->
                     <<yrs[((k - 1) \div MONTHS_COUNT) + 1],
                       d3range(MONTHS_COUNT)[((k - 1) % MONTHS_COUNT) + 1]>>]
        found == SelectSeq(pairs, LAMBDA p : nestedGet(map, p[1], p[2]) # <<>>)
    IN [k \in 1..Len(found) |->
           LET s == summariseMonth(nestedGet(map, found[k][1], found[k][2]))
           IN [year |-> found[k][1], month |-> found[k][2],
               monthlyMax |-> s.monthlyMax, monthlyMin |-> s.monthlyMin, days |-> s.days]]

\* fill of one rect: colour(showMax ? d.monthlyMax : d.monthlyMin)
cellFill(scale, flag, d) == applyColour(scale, IF flag THEN d.monthlyMax ELSE d.monthlyMin)

\* drawMiniCharts for one cell: nothing for no days, else the line-min and
\* the line-max path through the points (xMini(i), yMini(value)), each a
\* d3.curveMonotoneX curve
miniPadding == 4

drawMiniChart(d, w, h) ==
    LET days == d.days
        pad == FInt(miniPadding)
        xMini(i) == scaleLinear(0, Len(days) - 1, pad, FSub(w, pad), i)
        yMini(v) == scaleLinear(TEMP_MIN, TEMP_MAX, FSub(h, pad), pad, v)
    IN IF days = <<>> THEN <<>>
       ELSE <<[class |-> "line-min", curve |-> "curveMonotoneX",
               points |-> [i \in 1..Len(days) |-> <<xMini(i - 1), yMini(days[i].min)>>]],
              [class |-> "line-max", curve |-> "curveMonotoneX",
               points |-> [i \in 1..Len(days) |-> <<xMini(i - 1), yMini(days[i].max)>>]]>>

DrawCells ==
    /\ pc = "drawCells"
    /\ LET cs == buildCells(nested, years)
           x == axes[1].xScale
           y == axes[1].yScale
       IN /\ cells' = cs
          /\ cellGroups' = [i \in 1..Len(cs) |->
                               [translate |-> <<bandPos(x, cs[i].year), bandPos(y, cs[i].month)>>,
                                width |-> bandwidth(x), height |-> bandwidth(y), rx |-> 2]]
          /\ fill' = [i \in 1..Len(cs) |-> cellFill(colour[1], showMax, cs[i])]
          /\ paths' = [i \in 1..Len(cs) |-> drawMiniChart(cs[i], bandwidth(x), bandwidth(y))]
    /\ pc' = "drawLegend"
    /\ UNCHANGED <<fetch, loadVars, colour, svg, axes, legend, uiVars, sumVars>>

legendSteps == 10
legendWidth == 18

drawLegend(scale, yrs) ==
    [x |-> CELL_WIDTH * Len(yrs) + 30, y |-> 0,
     width |-> legendWidth, height |-> CELL_HEIGHT * MONTHS_COUNT,
     stops |-> [i \in 1..(legendSteps + 1) |->
                   [offset |-> Frac((i - 1) * 100, legendSteps),
                    colour |-> applyColour(scale,
                                  TEMP_MIN + ((TEMP_MAX - TEMP_MIN) * (i - 1)) \div legendSteps)]],
     labels |-> <<[y |-> 10, text |-> TEMP_MIN], [y |-> CELL_HEIGHT * MONTHS_COUNT, text |-> TEMP_MAX]>>]

DrawLegend ==
    /\ pc = "drawLegend"
    /\ legend' = <<drawLegend(colour[1], years)>>
    /\ pc' = "done"
    /\ UNCHANGED <<fetch, loadVars, colour, svg, axes, cells, cellGroups, fill, paths,
                   uiVars, sumVars>>

(***************************************************************************)
(* 5. Interaction (main.js, section 5, and the handlers of drawCells)      *)
(*                                                                         *)
(* Events are dispatched only once main() has returned: the rects exist    *)
(* from drawCells on, and main's continuation runs to completion first.    *)
(* The pointer is over at most one cell; a click goes to the cell under    *)
(* the pointer.                                                            *)
(***************************************************************************)
PointerPositions == {<<0, 30>>, <<5, 40>>}

\* s.padStart(2, "0") of a digit string
padStart2(s) == IF Len(s) >= 2 THEN s ELSE <<0>> \o s

\* the html the mouseover handler writes for cell d
tooltipHtml(flag, d) ==
    [strong |-> <<String(d.year), padStart2(String(d.month + 1))>>,
     label |-> IF flag THEN "Max" ELSE "Min",
     value |-> IF flag THEN d.monthlyMax ELSE d.monthlyMin,
     unit |-> "°C"]

\* toggleMode that switches to the minimum instead of flipping the flag
toggleModeSetMin(st) ==
    [showMax |-> FALSE,
     modeLabel |-> "Minimum",
     fill |-> [i \in DOMAIN st.fill |-> cellFill(colour[1], FALSE, cells[i])]]

\* toggleMode(svg, cells, colour) on the page state st = [showMax, modeLabel, fill]:
\* flips the flag, writes the label, and refills every rect.cell from its datum
toggleMode(st) ==
    LET flag == ~st.showMax
    IN [showMax |-> flag,
        modeLabel |-> IF flag THEN "Maximum" ELSE "Minimum",
        fill |-> [i \in DOMAIN st.fill |-> cellFill(colour[1], flag, cells[i])]]

PageState == [showMax |-> showMax, modeLabel |-> modeLabel, fill |-> fill]

\* a click handler that refills the clicked rect alone
ClickRefillOne(i) ==
    /\ pc = "done"
    /\ hovered = i
    /\ clicks < MaxClicks
    /\ showMax' = ~showMax
    /\ modeLabel' = IF ~showMax THEN "Maximum" ELSE "Minimum"
    /\ fill' = [fill EXCEPT ![i] = cellFill(colour[1], ~showMax, cells[i])]
    /\ clicks' = clicks + 1
    /\ UNCHANGED <<pc, fetch, loadVars, colour, svg, axes, cells, cellGroups, paths, legend,
                   tooltip, hovered, sumVars>>

Click(i) ==
    /\ pc = "done"
    /\ hovered = i
    /\ clicks < MaxClicks
    /\ LET st == toggleMode(PageState)
       IN /\ showMax' = st.showMax
          /\ modeLabel' = st.modeLabel
          /\ fill' = st.fill
    /\ clicks' = clicks + 1
    /\ UNCHANGED <<pc, fetch, loadVars, colour, svg, axes, cells, cellGroups, paths, legend,
                   tooltip, hovered, sumVars>>

\* a mouseover handler that also refills the hovered rect for the other field
MouseOverRefill(i) ==
    /\ pc = "done"
    /\ hovered = 0
    /\ hovered' = i
    /\ tooltip' = [tooltip EXCEPT !.opacity = 1, !.html = <<tooltipHtml(showMax, cells[i])>>]
    /\ fill' = [fill EXCEPT ![i] = cellFill(colour[1], ~showMax, cells[i])]
    /\ UNCHANGED <<pc, fetch, loadVars, colour, svg, axes, cells, cellGroups, paths, legend,
                   showMax, modeLabel, clicks, sumVars>>

MouseOver(i) ==
    /\ pc = "done"
    /\ hovered = 0
    /\ hovered' = i
    /\ tooltip' = [tooltip EXCEPT !.opacity = 1, !.html = <<tooltipHtml(showMax, cells[i])>>]
    /\ UNCHANGED <<pc, fetch, loadVars, chartVars, showMax, modeLabel, clicks, sumVars>>

MouseMove(p) ==
    /\ pc = "done"
    /\ hovered # 0
    /\ tooltip' = [tooltip EXCEPT !.pos = <<p[1] + 12, p[2] - 28>>]
    /\ UNCHANGED <<pc, fetch, loadVars, chartVars, showMax, modeLabel, hovered, clicks, sumVars>>

MouseOut ==
    /\ pc = "done"
    /\ hovered # 0
    /\ hovered' = 0
    /\ tooltip' = [tooltip EXCEPT !.opacity = 0]
    /\ UNCHANGED <<pc, fetch, loadVars, chartVars, showMax, modeLabel, clicks, sumVars>>

ClickCell == pc = "done" /\ \E i \in 1..Len(cells) : Click(i)
MouseOverCell == pc = "done" /\ \E i \in 1..Len(cells) : MouseOver(i)
MouseMoveCell == pc = "done" /\ \E p \in PointerPositions : MouseMove(p)

(***************************************************************************)
(* summariseMonth on its own, on the groups of one month                   *)
(***************************************************************************)
GroupDays == {1, 2, 3}
GroupTemps == {<<14, 4>>, <<10, 2>>, <<12, 6>>}
DayRecords == {[date |-> <<2023, 0, d>>, max |-> t[1], min |-> t[2]] : d \in GroupDays, t \in GroupTemps}
Groups == SeqsUpTo(DayRecords, MaxDays) \ {<<>>}

SummariseGroup ==
    /\ summary = <<>>
    /\ \E g \in Groups :
          /\ group' = g
          /\ summary' = <<summariseMonth(g)>>
    /\ UNCHANGED <<pc, fetch, loadVars, chartVars, uiVars>>

(***************************************************************************)
(* Specifications                                                          *)
(***************************************************************************)
Next ==
    \/ CsvResolve
    \/ CsvReject
    \/ BuildColourScale
    \/ CreateSvg
    \/ DrawAxes
    \/ DrawCells
    \/ DrawLegend
    \/ ClickCell
    \/ MouseOverCell
    \/ MouseMoveCell
    \/ MouseOut

Spec == Init /\ [][Next]_vars

\* the pipeline on the year-window inputs, without the pointer events
NextYears ==
    \/ CsvResolveYears
    \/ CsvReject
    \/ BuildColourScale
    \/ CreateSvg
    \/ DrawAxes
    \/ DrawCells
    \/ DrawLegend

SpecYears == Init /\ [][NextYears]_vars

SpecSummarise == Init /\ [][SummariseGroup]_vars

(***************************************************************************)
(* Properties                                                              *)
(***************************************************************************)
\* the parsed rows d3.csv delivered that have a date
WellFormed == SelectSeq([i \in 1..Len(csv) |-> parseRow(csv[i])], LAMBDA d : d.date # <<>>)

\* the years present in the well-formed rows
YearsPresent == {getFullYear(WellFormed[i].date) : i \in 1..Len(WellFormed)}

\* the rows nested holds
KeptRows == UNION {Range(nested[k]) : k \in DOMAIN nested}

Loaded == fetch = "resolved" /\ pc # "rejected"
Drawn == pc \in {"drawLegend", "done"}

\* C1: the mode starts as MAX_MODE, every click flips it, so that after n
\* clicks it is MAX_MODE exactly when n is even; and two consecutive toggles
\* give back the flag and the fill of every cell.
C1_DoubleToggle ==
    /\ showMax = (clicks % 2 = 0)
    /\ pc = "done" =>
          LET twice == toggleMode(toggleMode(PageState))
          IN twice.showMax = showMax /\ twice.fill = fill

C1_Witness ==
    /\ clicks = 2
    /\ Len(cells) >= 1
    /\ fill[1] # toggleMode(PageState).fill[1]

\* C2: once the cells are drawn, and after any clicks, the fill of every
\* cell is the colour of its monthlyMax in MAX_MODE and of its monthlyMin in
\* MIN_MODE, and after a toggle the mode label reads "Maximum" exactly in
\* MAX_MODE and "Minimum" otherwise: a click refills every cell.
C2_FillFollowsMode ==
    Drawn =>
        /\ DOMAIN fill = 1..Len(cells)
        /\ \A i \in 1..Len(cells) :
              fill[i] = applyColour(buildColourScale,
                                    IF showMax THEN cells[i].monthlyMax ELSE cells[i].monthlyMin)
        /\ clicks > 0 => modeLabel = (IF showMax THEN "Maximum" ELSE "Minimum")

C2_Witness ==
    /\ clicks >= 1
    /\ ~showMax
    /\ Len(cells) >= 2
    /\ cells[1].monthlyMin # cells[2].monthlyMin

\* the window the claim states: the distinct years in ascending order, the
\* YEARS_COUNT most recent of them
YearsWindow == sliceLast(SetToAscSeq(YearsPresent), YEARS_COUNT)

\* C3: the selected years are the distinct years present, ascending,
\* restricted to the YEARS_COUNT most recent.
C3_YearsWindow == Loaded => years = YearsWindow

\* C4: the rows kept are exactly the rows whose year is one of the selected
\* years.
C4_KeptIsMembership ==
    Loaded => KeptRows = {r \in Range(WellFormed) : getFullYear(r.date) \in Range(years)}

\* C5: for a non-empty group of one month, monthlyMax is the maximum of the
\* daily max values, monthlyMin the minimum of the daily min values, and
\* days holds the same records in ascending order of the date.
C5_Summary ==
    summary # <<>> =>
        LET s == summary[1]
            n == Len(group)
        IN /\ \E i \in 1..n : group[i].max = s.monthlyMax
           /\ \A i \in 1..n : group[i].max <= s.monthlyMax
           /\ \E i \in 1..n : group[i].min = s.monthlyMin
           /\ \A i \in 1..n : group[i].min >= s.monthlyMin
           /\ Len(s.days) = n
           /\ \A i \in 1..n : \A j \in i..n : valueOf(s.days[i].date) <= valueOf(s.days[j].date)
           /\ \A r \in DayRecords :
                 Cardinality({i \in 1..n : s.days[i] = r}) = Cardinality({i \in 1..n : group[i] = r})

C5_Witness ==
    /\ summary # <<>>
    /\ Len(group) = 3
    /\ valueOf(group[1].date) > valueOf(group[2].date)
    /\ group[1].max < group[3].max
    /\ group[1].min > group[2].min

\* C6: a row whose date does not parse is left out and the load completes.
C6_BadRowNotFatal ==
    (fetch = "resolved" /\ \E i \in 1..Len(csv) : csv[i].date = BadDate) => pc # "rejected"

\* C7: the cells are exactly the pairs (year, month), year selected and
\* month in 0..11, that have a daily record; one cell each, days not empty.
C7_CellsArePairsWithData ==
    Drawn =>
        /\ {<<cells[i].year, cells[i].month>> : i \in 1..Len(cells)} =
              {<<y, m>> \in Range(years) \X (0..(MONTHS_COUNT - 1)) :
                  \E r \in Range(WellFormed) : getFullYear(r.date) = y /\ getMonth(r.date) = m}
        /\ \A i, j \in 1..Len(cells) :
              (cells[i].year = cells[j].year /\ cells[i].month = cells[j].month) => i = j
        /\ \A i \in 1..Len(cells) : cells[i].days # <<>>

\* C8: no scale is built and nothing is drawn unless the request has
\* resolved; with the request pending or failed there is no chart element.
C8_NothingBeforeLoad ==
    fetch # "resolved" =>
        /\ pc \in {"loadData", "rejected"}
        /\ colour = <<>> /\ svg = <<>> /\ axes = <<>>
        /\ cells = <<>> /\ cellGroups = <<>> /\ fill = <<>> /\ paths = <<>> /\ legend = <<>>

C8_Witness == pc = "done" /\ fetch = "resolved" /\ Len(cells) >= 1 /\ legend # <<>>

\* C9: a visible tooltip shows the hovered cell's year-month, the name of
\* the field that is active now and the cell's value for it; it is hidden
\* once the pointer has left.
C9_TooltipShowsActiveField ==
    /\ tooltip.opacity = 1 =>
          hovered # 0 /\ tooltip.html = <<tooltipHtml(showMax, cells[hovered])>>
    /\ hovered = 0 => tooltip.opacity = 0

\* C10: a click leaves the cells, their position and size, their data, the
\* scales, the mini chart paths and the legend as they are; and no step
\* other than a click writes showMax or, once the chart is drawn, a fill.
C10_ToggleFrame ==
    [][/\ ClickCell => UNCHANGED <<pc, fetch, csv, years, nested, colour, svg, axes, cells,
                                   cellGroups, paths, legend>>
       /\ ~ClickCell => showMax' = showMax
       /\ (~ClickCell /\ pc = "done") => fill' = fill]_vars

C10_Witness ==
    /\ clicks >= 1
    /\ hovered = 0
    /\ tooltip.pos # <<>>
    /\ Len(cells) >= 2
====
